---- MODULE Spec2Model ----
(***************************************************************************)
(* Model of code/nlp_utils/model.py: the three LightningModule classes     *)
(* BaseModel, BiLSTMModel and CustomDistilBertModel, their constructors,   *)
(* forward passes, step hooks, epoch-end hooks and optimizer set-up.       *)
(* Tensors are modelled by their shape, their device and (where a claim    *)
(* needs them) their element values; parameters by their requires_grad     *)
(* flag, their gradient slot and a version number of their value.          *)
(***************************************************************************)
EXTENDS Integers, Sequences, FiniteSets, TLC

VARIABLES
    cls,            \* the class of the object: BaseModel, BiLSTMModel, CustomDistilBertModel
    pc,             \* "new" before __init__, "ready" after it, "raised" once a call raised
    given,          \* the dict create_config(config) returns to __init__
    config,         \* self.config
    hparams,        \* what save_hyperparameters stored
    layers,         \* the layers __init__ built, by attribute name
    requires_grad,  \* parameter group -> requires_grad
    grad,           \* parameter group -> TRUE when .grad holds a tensor
    value,          \* parameter group -> version of the parameter values
    optimizer,      \* the parameter groups handed to Adam, or NoOptimizer
    pending,        \* TRUE after a training_step returned a loss not yet stepped
    device,         \* self.device
    train_metric,   \* accumulated state of self.train_metric
    val_metric,     \* accumulated state of self.val_metric
    test_metric,    \* accumulated state of self.test_metric
    fed,            \* phase -> metric state of all batches whose step completed
    epoch_fed,      \* phase -> the same, of the current epoch only
    epochs,         \* phase -> number of epoch-end hooks run
    ctor,           \* the statements __init__ executed, in order
    last,           \* what the last call did and returned
    steps           \* number of calls made on the object

vars == <<cls, pc, given, config, hparams, layers, requires_grad, grad, value,
          optimizer, pending, device, train_metric, val_metric, test_metric,
          fed, epoch_fed, epochs, ctor, last, steps>>

----------------------------------------------------------------------------
(* Bounds of the model *)

MaxSteps == 4
MaxBatch == 2
MaxSeq == 2
MaxDim == 2
MaxStance == 1

(* Program constants *)

num_classes == 4
bert_dim == 768
bert_vocab_size == 30522

Classes == {"BaseModel", "BiLSTMModel", "CustomDistilBertModel"}
Devices == {"cpu", "cuda"}
Phases == {"train", "val", "test"}
Err == <<0 - 1>>
None == "None"
NoOptimizer == {"no optimizer"}

Max(a, b) == IF a >= b THEN a ELSE b

----------------------------------------------------------------------------
(* Shapes of the library operations the classes compose *)

Linear(in_features, out_features) == [in |-> in_features, out |-> out_features]

ApplyLinear(layer, x) ==
    IF x = Err \/ Len(x) = 0 THEN Err
    ELSE IF x[Len(x)] # layer.in THEN Err
    ELSE [x EXCEPT ![Len(x)] = layer.out]

\* nn.Sequential(nn.Linear, nn.ReLU[, nn.Dropout]): the activations keep the shape
ApplySequential(layer, x) == ApplyLinear(layer, x)

\* torch.cat((a, b), 1)
Cat1(a, b) ==
    IF a = Err \/ b = Err THEN Err
    ELSE IF Len(a) # 2 \/ Len(b) # 2 THEN Err
    ELSE IF a[1] # b[1] THEN Err
    ELSE <<a[1], a[2] + b[2]>>

\* x[:, k] of a (bs, seq_len, dim) tensor, k counted from 0; k = -1 wraps to the end
SelectStep(x, k) ==
    IF x = Err \/ Len(x) # 3 THEN Err
    ELSE IF k >= x[2] \/ k < 0 - x[2] THEN Err
    ELSE <<x[1], x[3]>>

\* self.bert(input_ids, attention_mask)[0]: (bs, seq_len) -> (bs, seq_len, dim)
BertHidden(ids) ==
    IF Len(ids) # 2 THEN Err ELSE <<ids[1], ids[2], bert_dim>>

\* nn.Embedding lookup: every id has to be a row of the table
ApplyEmbedding(layer, ids, max_id) ==
    IF Len(ids) # 2 \/ max_id >= layer.num THEN Err
    ELSE <<ids[1], ids[2], layer.dim>>

\* nn.LSTM(bidirectional=True, batch_first=True): both directions are concatenated
ApplyLSTM(layer, x) ==
    IF x = Err \/ Len(x) # 3 THEN Err
    ELSE IF x[3] # layer.input_size \/ x[2] = 0 THEN Err
    ELSE <<x[1], x[2], 2 * layer.hidden_size>>

----------------------------------------------------------------------------
(* Construction *)

ParamGroups(c) ==
    IF c = "BaseModel"
        THEN {"bert", "distilbert_tail", "category_encoder", "classifier"}
    ELSE IF c = "BiLSTMModel"
        THEN {"embedding", "category_encoder", "bilstm", "classifier"}
    ELSE {"bert", "distilbert_tail", "classifier"}

HeadGroups(c) == ParamGroups(c) \ {"bert"}

\* DistilBertModel.from_pretrained("distilbert-base-uncased").config; hidden_size
\* is the library's alias of dim
bert_config == [dim |-> bert_dim, hidden_size |-> bert_dim,
                vocab_size |-> bert_vocab_size]

\* save_hyperparameters(self.config) stores its own copy of the dict it is given
save_hyperparameters(cfg) == cfg

\* if self.config["vocab_size"] == 0: self.config["vocab_size"] = self.bert.config.vocab_size
VocabDefault(cfg) ==
    IF cfg.vocab_size = 0
        THEN [cfg EXCEPT !.vocab_size = bert_config.vocab_size]
        ELSE cfg

\* for param in self.bert.parameters(): param.requires_grad = False
FreezeEncoder_skipped(rg) == rg

FreezeEncoder(rg) == [p \in DOMAIN rg |-> IF p = "bert" THEN FALSE ELSE rg[p]]

\* parameters are created (and loaded) trainable
FreshParams(c) == [p \in ParamGroups(c) |-> TRUE]

BaseModel_classifier(cfg) ==
    Linear(bert_config.hidden_size + cfg.category_encoder_out, 1)

BiLSTMModel_classifier_one_direction(cfg) ==
    Linear(cfg.bilstm_hidden_dim + cfg.category_encoder_out, 1)

BiLSTMModel_classifier(cfg) ==
    Linear(cfg.bilstm_hidden_dim * 2 + cfg.category_encoder_out, 1)

CustomDistilBertModel_classifier == Linear(bert_config.hidden_size, num_classes)

category_encoder(cfg) ==
    Linear(cfg.category_encoded_length, cfg.category_encoder_out)

distilbert_tail == Linear(bert_config.dim, bert_config.dim)

BaseModel_layers(cfg) ==
    [distilbert_tail |-> distilbert_tail,
     category_encoder |-> category_encoder(cfg),
     classifier |-> BaseModel_classifier(cfg)]

BiLSTMModel_layers(cfg) ==
    [embedding |-> [num |-> cfg.vocab_size, dim |-> cfg.embedding_dim],
     category_encoder |-> category_encoder(cfg),
     bilstm |-> [input_size |-> cfg.embedding_dim,
                 hidden_size |-> cfg.bilstm_hidden_dim],
     classifier |-> BiLSTMModel_classifier(cfg)]

CustomDistilBertModel_layers ==
    [distilbert_tail |-> distilbert_tail,
     classifier |-> CustomDistilBertModel_classifier]

\* The statements __init__ executes, in order, for the dict create_config returned
BaseModel_init_steps_nested(cfg) ==
    <<"create_config", "self.config", "save_hyperparameters", "learning_rate",
      "metrics", "from_pretrained">>
    \o (IF cfg.vocab_size = 0 THEN <<"vocab_size", "freeze">> ELSE <<>>)
    \o <<"distilbert_tail", "category_encoder", "classifier">>

BaseModel_init_steps(cfg) ==
    <<"create_config", "self.config", "save_hyperparameters", "learning_rate",
      "metrics", "from_pretrained">>
    \o (IF cfg.vocab_size = 0 THEN <<"vocab_size">> ELSE <<>>)
    \o <<"freeze", "distilbert_tail", "category_encoder", "classifier">>

BiLSTMModel_init_steps(cfg) ==
    <<"create_config", "self.config", "save_hyperparameters", "learning_rate",
      "metrics", "embedding", "category_encoder", "bilstm", "classifier">>

CustomDistilBertModel_init_steps(cfg) ==
    <<"create_config", "self.config", "save_hyperparameters", "learning_rate",
      "num_classes", "metrics", "from_pretrained">>
    \o (IF cfg.vocab_size = 0 THEN <<"vocab_size">> ELSE <<>>)
    \o <<"freeze", "distilbert_tail", "classifier">>

init_steps(c, cfg) ==
    IF c = "BaseModel" THEN BaseModel_init_steps(cfg)
    ELSE IF c = "BiLSTMModel" THEN BiLSTMModel_init_steps(cfg)
    ELSE CustomDistilBertModel_init_steps(cfg)

\* The statements run when from_pretrained raises: everything up to and including it
RECURSIVE UpTo(_, _)
UpTo(s, x) ==
    IF s = <<>> THEN <<>>
    ELSE IF s[1] = x THEN <<x>>
    ELSE <<s[1]>> \o UpTo(Tail(s), x)

HasStep(s, x) == \E i \in 1..Len(s) : s[i] = x

\* The object a constructor leaves behind
BaseModel_init(cfg) ==
    [config |-> VocabDefault(cfg),
     hparams |-> save_hyperparameters(cfg),
     layers |-> BaseModel_layers(cfg),
     requires_grad |-> FreezeEncoder(FreshParams("BaseModel"))]

BiLSTMModel_init(cfg) ==
    [config |-> cfg,
     hparams |-> save_hyperparameters(cfg),
     layers |-> BiLSTMModel_layers(cfg),
     requires_grad |-> FreshParams("BiLSTMModel")]

CustomDistilBertModel_init(cfg) ==
    [config |-> VocabDefault(cfg),
     hparams |-> save_hyperparameters(cfg),
     layers |-> CustomDistilBertModel_layers,
     requires_grad |-> FreezeEncoder(FreshParams("CustomDistilBertModel"))]

init(c, cfg) ==
    IF c = "BaseModel" THEN BaseModel_init(cfg)
    ELSE IF c = "BiLSTMModel" THEN BiLSTMModel_init(cfg)
    ELSE CustomDistilBertModel_init(cfg)

----------------------------------------------------------------------------
(* forward: the shapes it computes and the statements it runs.  x holds the *)
(* shape of the token ids, the largest token id and the shape of the        *)
(* category vectors.                                                        *)

BaseModel_forward(ly, x) ==
    LET hidden_state == BertHidden(x.ids)
        pooled_output == ApplySequential(ly.distilbert_tail, SelectStep(hidden_state, 0))
        categories_encoded == ApplySequential(ly.category_encoder, x.cats)
        concat == Cat1(pooled_output, categories_encoded)
    IN  [clf_in |-> concat,
         out |-> ApplyLinear(ly.classifier, concat),
         steps |-> <<"bert", "hidden_state", "pooled_output", "distilbert_tail",
                     "category_encoder", "cat", "classifier">>]

BiLSTMModel_forward(ly, x) ==
    LET embeddings == ApplyEmbedding(ly.embedding, x.ids, x.max_id)
        lstm_out == ApplyLSTM(ly.bilstm, embeddings)
        categories_encoded == ApplySequential(ly.category_encoder, x.cats)
        forward == IF lstm_out = Err THEN Err
                   ELSE SelectStep(lstm_out, lstm_out[2] - 1)
        combined == Cat1(forward, categories_encoded)
    IN  [clf_in |-> combined,
         out |-> ApplyLinear(ly.classifier, combined),
         steps |-> <<"embedding", "bilstm", "category_encoder", "forward",
                     "cat", "classifier">>]

CustomDistilBertModel_forward(ly, x) ==
    LET hidden_state == BertHidden(x.ids)
        pooled_output == ApplySequential(ly.distilbert_tail, SelectStep(hidden_state, 0))
    IN  [clf_in |-> pooled_output,
         out |-> ApplyLinear(ly.classifier, pooled_output),
         steps |-> <<"no_grad", "bert", "hidden_state", "pooled_output",
                     "distilbert_tail", "classifier">>]

forward(c, ly, x) ==
    IF c = "BaseModel" THEN BaseModel_forward(ly, x)
    ELSE IF c = "BiLSTMModel" THEN BiLSTMModel_forward(ly, x)
    ELSE CustomDistilBertModel_forward(ly, x)

----------------------------------------------------------------------------
(* Tensors: a shape, the elements in row-major order, and a device *)

Tensor(shape, vals, dev) == [shape |-> shape, vals |-> vals, dev |-> dev]

Numel(t) == Len(t.vals)

\* t.view(-1)
View1(t) == [t EXCEPT !.shape = <<Numel(t)>>]

\* t.unsqueeze(1) of a one-dimensional tensor
Unsqueeze1(t) == [t EXCEPT !.shape = <<t.shape[1], 1>>]

\* t.to(device)
To_nowhere(t, dev) == t

To(t, dev) == [t EXCEPT !.dev = dev]

\* Broadcasting of two tensors of at most two dimensions
Pad2(shape) == IF Len(shape) = 1 THEN <<1, shape[1]>> ELSE shape

Broadcastable(a, b) ==
    \A k \in 1..2 : Pad2(a)[k] = Pad2(b)[k] \/ Pad2(a)[k] = 1 \/ Pad2(b)[k] = 1

BroadcastShape(a, b) ==
    <<Max(Pad2(a)[1], Pad2(b)[1]), Max(Pad2(a)[2], Pad2(b)[2])>>

\* the element of a tensor of shape `shape` that position (i, j) of the result reads
Elem(shape, i, j) ==
    ((IF Pad2(shape)[1] = 1 THEN 1 ELSE i) - 1) * Pad2(shape)[2]
    + (IF Pad2(shape)[2] = 1 THEN 1 ELSE j)

\* the (element of a, element of b) pairs an elementwise operation combines
Pairs(a, b) ==
    {<<Elem(a, i, j), Elem(b, i, j)>> :
        i \in 1..BroadcastShape(a, b)[1], j \in 1..BroadcastShape(a, b)[2]}

Sq(n) == n * n

RECURSIVE SumOver(_, _, _)
SumOver(ps, a, b) ==
    IF ps = {} THEN 0
    ELSE LET p == CHOOSE q \in ps : TRUE
         IN  Sq(a.vals[p[1]] - b.vals[p[2]]) + SumOver(ps \ {p}, a, b)

\* torch.argmax(y_hat, axis=1): per row the index of the first largest element
RowOf(t, i) == [k \in 1..t.shape[2] |-> t.vals[(i - 1) * t.shape[2] + k]]

ArgMaxRow_last(row) ==
    (CHOOSE k \in 1..Len(row) :
        /\ \A j \in 1..Len(row) : row[j] <= row[k]
        /\ \A j \in (k + 1)..Len(row) : row[j] < row[k]) - 1

ArgMaxRow(row) ==
    (CHOOSE k \in 1..Len(row) :
        /\ \A j \in 1..Len(row) : row[j] <= row[k]
        /\ \A j \in 1..(k - 1) : row[j] < row[k]) - 1

ArgMax1(t) ==
    [shape |-> <<t.shape[1]>>,
     vals |-> [i \in 1..t.shape[1] |-> ArgMaxRow(RowOf(t, i))],
     dev |-> t.dev]

----------------------------------------------------------------------------
(* Losses.  A loss is the record of what it was computed from: the element  *)
(* pairs, the two argument tensors, and its value as a fraction.            *)

Raised == [raised |-> TRUE]

\* F.mse_loss(input, target): the mean of the squared differences, after broadcasting
mse_loss(input, target) ==
    IF ~Broadcastable(input.shape, target.shape) THEN Raised
    ELSE [raised |-> FALSE,
          kind |-> "mse_loss",
          input |-> input,
          target |-> target,
          pairs |-> Pairs(input.shape, target.shape),
          value |-> <<SumOver(Pairs(input.shape, target.shape), input, target),
                      Cardinality(Pairs(input.shape, target.shape))>>]

\* F.cross_entropy(input, target): input (bs, C) raw scores, target (bs,) class indices
cross_entropy(input, target) ==
    IF \/ Len(input.shape) # 2 \/ Len(target.shape) # 1
       \/ input.shape[1] # target.shape[1]
       \/ \E i \in 1..Numel(target) : target.vals[i] \notin 0..(input.shape[2] - 1)
    THEN Raised
    ELSE [raised |-> FALSE,
          kind |-> "cross_entropy",
          input |-> input,
          target |-> target,
          pairs |-> {<<i, i>> : i \in 1..input.shape[1]},
          value |-> <<input.vals, target.vals>>]

----------------------------------------------------------------------------
(* Metrics *)

ClassIds == 0..(num_classes - 1)

\* torchmetrics.MeanSquaredError()
MeanSquaredError == [kind |-> "MeanSquaredError", sum_squared_error |-> 0, total |-> 0]

\* torchmetrics.F1(num_classes=self.num_classes, average="macro")
F1 == [kind |-> "F1",
       tp |-> [k \in ClassIds |-> 0],
       fp |-> [k \in ClassIds |-> 0],
       fn |-> [k \in ClassIds |-> 0]]

Count(S) == Cardinality(S)

\* metric(preds, target): both metrics refuse arguments of different shapes
MetricAccepts(m, preds, target) ==
    /\ preds.shape = target.shape
    /\ m.kind = "F1" =>
        \A i \in 1..Numel(preds) :
            preds.vals[i] \in ClassIds /\ target.vals[i] \in ClassIds

MetricUpdate(m, preds, target) ==
    IF m.kind = "MeanSquaredError"
    THEN [m EXCEPT
            !.sum_squared_error = @ + SumOver({<<i, i>> : i \in 1..Numel(preds)},
                                              preds, target),
            !.total = @ + Numel(target)]
    ELSE [m EXCEPT
            !.tp = [k \in ClassIds |-> @[k] + Count({i \in 1..Numel(preds) :
                        preds.vals[i] = k /\ target.vals[i] = k})],
            !.fp = [k \in ClassIds |-> @[k] + Count({i \in 1..Numel(preds) :
                        preds.vals[i] = k /\ target.vals[i] # k})],
            !.fn = [k \in ClassIds |-> @[k] + Count({i \in 1..Numel(preds) :
                        preds.vals[i] # k /\ target.vals[i] = k})]]

\* metric.compute(): a fraction <<numerator, denominator>>; it leaves the state alone
F1Den(m, k) ==
    IF 2 * m.tp[k] + m.fp[k] + m.fn[k] = 0 THEN 1
    ELSE 2 * m.tp[k] + m.fp[k] + m.fn[k]

RECURSIVE Prod(_, _)
Prod(m, ks) ==
    IF ks = {} THEN 1
    ELSE LET k == CHOOSE q \in ks : TRUE IN F1Den(m, k) * Prod(m, ks \ {k})

RECURSIVE F1Num(_, _)
F1Num(m, ks) ==
    IF ks = {} THEN 0
    ELSE LET k == CHOOSE q \in ks : TRUE
         IN  2 * m.tp[k] * Prod(m, ClassIds \ {k}) + F1Num(m, ks \ {k})

Compute(m) ==
    IF m.kind = "MeanSquaredError" THEN <<m.sum_squared_error, m.total>>
    ELSE <<F1Num(m, ClassIds), num_classes * Prod(m, ClassIds)>>

\* two fractions denote the same number (0/0, the value of an empty metric, only itself)
SameValue(v, w) ==
    IF v[2] = 0 \/ w[2] = 0 THEN v[2] = w[2]
    ELSE v[1] * w[2] = w[1] * v[2]

----------------------------------------------------------------------------
(* The step hooks.  A batch b holds the batch size, the sequence length,    *)
(* the largest token id, the width of the category vectors, the labels y,   *)
(* the numbers `out` the network computes for it, and the device it is on.  *)

StepHooks == {"training_step", "validation_step", "test_step"}
EpochEndHooks == {"training_epoch_end", "validation_epoch_end", "test_epoch_end"}

step_hook(ph) ==
    IF ph = "train" THEN "training_step"
    ELSE IF ph = "val" THEN "validation_step" ELSE "test_step"

epoch_end_hook(ph) ==
    IF ph = "train" THEN "training_epoch_end"
    ELSE IF ph = "val" THEN "validation_epoch_end" ELSE "test_epoch_end"

\* the metric attribute the step hook of a phase updates
step_metric_copied(ph) ==
    IF ph = "test" THEN "test_metric" ELSE "train_metric"

step_metric(ph) ==
    IF ph = "train" THEN "train_metric"
    ELSE IF ph = "val" THEN "val_metric" ELSE "test_metric"

\* the metric attribute the epoch-end hook of a phase computes
epoch_end_metric(ph) ==
    IF ph = "train" THEN "train_metric"
    ELSE IF ph = "val" THEN "val_metric" ELSE "test_metric"

MetricTypeName(c) == IF c = "CustomDistilBertModel" THEN "F1" ELSE "MeanSquaredError"

epoch_end_name(c, ph) ==
    IF c = "CustomDistilBertModel"
        THEN (IF ph = "train" THEN "train_epoch_"
              ELSE IF ph = "val" THEN "val_epoch_" ELSE "test_epoch_") \o MetricTypeName(c)
    ELSE (IF ph = "train" THEN "train_epoch" ELSE "val_epoch_") \o MetricTypeName(c)

loss_name(c, ph) ==
    IF ph = "val" THEN "val_loss"
    ELSE IF ph = "test" THEN "test_loss"
    ELSE IF c = "BiLSTMModel" THEN "loss" ELSE "train_loss"

return_key(ph) ==
    IF ph = "train" THEN "loss" ELSE IF ph = "val" THEN "val_loss" ELSE "test_loss"

\* the two tensors each hook gives to its loss
BaseModel_training_loss(y_hat, y) == mse_loss(View1(y_hat), View1(y))

BaseModel_validation_loss_flat(y_hat, y) == mse_loss(y_hat, y)

BaseModel_validation_loss(y_hat, y) == mse_loss(y_hat, Unsqueeze1(y))

BiLSTMModel_loss(y_hat, y) == mse_loss(y_hat, Unsqueeze1(y))

CustomDistilBertModel_loss(y_hat, y) == cross_entropy(y_hat, y)

step_loss(c, ph, y_hat, y) ==
    IF c = "BaseModel"
        THEN (IF ph = "train" THEN BaseModel_training_loss(y_hat, y)
              ELSE BaseModel_validation_loss(y_hat, y))
    ELSE IF c = "BiLSTMModel" THEN BiLSTMModel_loss(y_hat, y)
    ELSE CustomDistilBertModel_loss(y_hat, y)

\* the two tensors each hook gives to its metric
step_metric_args(c, y_hat, y) ==
    IF c = "CustomDistilBertModel" THEN <<ArgMax1(y_hat), y>>
    ELSE <<y_hat, Unsqueeze1(y)>>

\* the operations of a step hook, in the order of the code
step_ops(c) ==
    IF c = "CustomDistilBertModel"
        THEN <<"unpack", "to", "forward", "argmax", "loss", "metric", "log", "return">>
        ELSE <<"unpack", "to", "forward", "loss", "metric", "log", "return">>

\* what runs when operation `failed` raises: the hooks hold no try/except
RunHook_metric_guarded(ops, failed) ==
    IF failed = "none" \/ failed = "metric" THEN ops ELSE UpTo(ops, failed)

RunHook(ops, failed) ==
    IF failed = "none" THEN ops ELSE UpTo(ops, failed)

ForwardInput(b) ==
    [ids |-> <<b.bs, b.seq_len>>, max_id |-> b.max_id, cats |-> <<b.bs, b.cat_width>>]

NoCall ==
    [hook |-> None, x |-> None, arrived |-> None, used |-> None, ran |-> <<>>,
     raised |-> "none",
     fwd_steps |-> <<>>, clf_in |-> None, out |-> None, loss |-> None,
     metric_args |-> None, logged |-> <<>>, returned |-> None, epoch_value |-> None]

\* the tensors a hook works with after its .to(self.device) calls
Moved(c, b, dev) ==
    [y |-> To(Tensor(<<b.bs>>, b.y, b.dev), dev),
     encoded_texts |-> To(Tensor(<<b.bs, b.seq_len>>, <<>>, b.dev), dev),
     category_vectors |->
        IF c = "CustomDistilBertModel" THEN None
        ELSE To(Tensor(<<b.bs, b.cat_width>>, <<>>, b.dev), dev)]

UsedDevices(c, m) ==
    [y |-> m.y.dev,
     encoded_texts |-> m.encoded_texts.dev,
     category_vectors |->
        IF c = "CustomDistilBertModel" THEN None ELSE m.category_vectors.dev]

\* the layers raise when an input is not on the device of the parameters
OnDevice(c, m, dev) ==
    /\ m.encoded_texts.dev = dev
    /\ c # "CustomDistilBertModel" => m.category_vectors.dev = dev

\* One call of training_step / validation_step / test_step: the record of the call
\* and the new state of the three metrics.  `fault` names an operation that the
\* library makes raise (a device error, out of memory), or "none".
step(c, ph, ly, dev, metrics, b, fault) ==
    LET m == Moved(c, b, dev)
        fwd == forward(c, ly, ForwardInput(b))
        fwd_fails == fault = "forward" \/ fwd.out = Err \/ ~OnDevice(c, m, dev)
        y_hat == Tensor(fwd.out, b.out, m.encoded_texts.dev)
        loss == step_loss(c, ph, y_hat, m.y)
        args == step_metric_args(c, y_hat, m.y)
        name == step_metric(ph)
        failed ==
            IF fault = "to" THEN "to"
            ELSE IF fwd_fails THEN "forward"
            ELSE IF fault = "loss" \/ loss.raised THEN "loss"
            ELSE IF fault = "metric" \/ ~MetricAccepts(metrics[name], args[1], args[2])
                THEN "metric"
            ELSE "none"
        ran == RunHook(step_ops(c), failed)
        did(op) == HasStep(ran, op) /\ failed # op
    IN  [call |->
            [NoCall EXCEPT
                !.hook = step_hook(ph),
                !.x = ForwardInput(b),
                !.arrived = b.dev,
                !.used = IF did("to") THEN UsedDevices(c, m) ELSE None,
                !.ran = ran,
                !.raised = failed,
                !.fwd_steps = IF did("forward") THEN fwd.steps ELSE <<>>,
                !.clf_in = IF did("forward") THEN fwd.clf_in ELSE None,
                !.out = IF did("forward") THEN fwd.out ELSE None,
                !.loss = IF did("loss") THEN loss ELSE None,
                !.metric_args = IF did("metric") THEN args ELSE None,
                !.logged = IF did("log")
                              THEN <<[name |-> loss_name(c, ph), value |-> loss.value]>>
                              ELSE <<>>,
                !.returned = IF did("return")
                                THEN [key |-> return_key(ph), value |-> loss.value]
                                ELSE None],
         metrics |->
            IF did("metric")
                THEN [metrics EXCEPT ![name] = MetricUpdate(@, args[1], args[2])]
                ELSE metrics]

\* Observer: the metric of a phase over one batch, prediction i paired with label i
Reference(c, m, b) ==
    IF c = "CustomDistilBertModel"
        THEN MetricUpdate(m,
                Tensor(<<b.bs>>,
                       [i \in 1..b.bs |->
                           ArgMaxRow([k \in 1..num_classes |->
                                        b.out[(i - 1) * num_classes + k]])],
                       b.dev),
                Tensor(<<b.bs>>, b.y, b.dev))
        ELSE MetricUpdate(m, Tensor(<<b.bs>>, b.out, b.dev), Tensor(<<b.bs>>, b.y, b.dev))

\* training_epoch_end / validation_epoch_end / test_epoch_end
epoch_end(c, ph, metrics) ==
    [NoCall EXCEPT
        !.hook = epoch_end_hook(ph),
        !.ran = <<"compute", "log">>,
        !.logged = <<[name |-> epoch_end_name(c, ph),
                      value |-> Compute(metrics[epoch_end_metric(ph)])]>>]

----------------------------------------------------------------------------
(* Optimisation: configure_optimizers hands every parameter to Adam; the    *)
(* framework then runs backward and optimizer.step() on each returned loss. *)

configure_optimizers(c) == ParamGroups(c)

\* loss.backward(): a gradient reaches exactly the parameters that require one
Backward(rg) == [p \in DOMAIN rg |-> rg[p]]

\* Adam.step(): a parameter whose .grad is None is skipped
AdamStep(opt, g, v) ==
    [p \in DOMAIN v |-> IF p \in opt /\ g[p] THEN v[p] + 1 ELSE v[p]]

----------------------------------------------------------------------------
(* Inputs *)

Config(v, e, h, l, o) ==
    [vocab_size |-> v, embedding_dim |-> e, bilstm_hidden_dim |-> h,
     category_encoded_length |-> l, category_encoder_out |-> o]

\* the configurations of the training runs: vocab_size left at 0, or set
RunConfigs == {Config(v, 1, 1, 1, 1) : v \in {0, 1}}

\* the configurations the constructors and the forward pass are checked on
AllConfigs ==
    {Config(v, e, h, l, o) :
        v \in 0..MaxDim, e \in 1..MaxDim, h \in 1..MaxDim,
        l \in 1..MaxDim, o \in 1..MaxDim}

Bit == {0, 1}

Scores == [1..num_classes -> Bit]

\* the scores of a batch, row after row
Flatten(rows) ==
    [k \in 1..(Len(rows) * num_classes) |->
        rows[((k - 1) \div num_classes) + 1][((k - 1) % num_classes) + 1]]

RegressionBatch(cfg, y, out, d) ==
    [bs |-> Len(y), seq_len |-> 1, max_id |-> 0,
     cat_width |-> cfg.category_encoded_length, y |-> y, out |-> out, dev |-> d]

StanceBatch(y, rows, d) ==
    [bs |-> Len(y), seq_len |-> 1, max_id |-> 0, cat_width |-> 0,
     y |-> y, out |-> Flatten(rows), dev |-> d]

\* the batches of a training run: two of them per class, placed by the framework
EpochBatches(c, cfg, d) ==
    IF c = "CustomDistilBertModel"
        THEN {StanceBatch(<<1>>, <<(<<0, 1, 1, 0>>)>>, d),
              StanceBatch(<<3, 1>>, <<(<<0, 0, 0, 1>>), (<<1, 0, 0, 0>>)>>, d)}
        ELSE {RegressionBatch(cfg, <<1>>, <<1>>, d),
              RegressionBatch(cfg, <<0, 1>>, <<1, 1>>, d)}

\* the batches a single step hook is checked on
StepBatches(c, cfg) ==
    IF c = "CustomDistilBertModel"
        THEN UNION {{StanceBatch(y, rows, d) :
                        y \in [1..n -> {1, 3}],
                        rows \in [1..n -> {<<0, 1, 1, 0>>, <<0, 0, 0, 1>>}],
                        d \in Devices} : n \in 1..MaxBatch}
        ELSE UNION {{RegressionBatch(cfg, y, out, d) :
                        y \in [1..n -> Bit], out \in [1..n -> Bit], d \in Devices} :
                    n \in 1..MaxBatch}

\* the batches the stance prediction is checked on
StanceBatches ==
    UNION {{StanceBatch(y, rows, d) :
                y \in [1..n -> ClassIds], rows \in [1..n -> Scores], d \in Devices} :
           n \in 1..MaxStance}

Faults == {"none", "to", "forward", "loss", "metric"}

AllInputs ==
    {[ids |-> <<bs, sl>>, max_id |-> t, cats |-> <<bs, w>>, dev |-> d] :
        bs \in 1..MaxBatch, sl \in 1..MaxSeq, t \in Bit,
        w \in 1..MaxDim, d \in Devices}

----------------------------------------------------------------------------
(* The state machine of one model object *)

Metrics ==
    [train_metric |-> train_metric, val_metric |-> val_metric,
     test_metric |-> test_metric]

NewMetric(c) == IF c = "CustomDistilBertModel" THEN F1 ELSE MeanSquaredError

InitWith(configs) ==
    /\ cls \in Classes
    /\ given \in configs
    /\ device \in Devices
    /\ pc = "new"
    /\ config = None
    /\ hparams = None
    /\ layers = None
    /\ requires_grad = None
    /\ grad = None
    /\ value = None
    /\ optimizer = NoOptimizer
    /\ pending = FALSE
    /\ train_metric = None
    /\ val_metric = None
    /\ test_metric = None
    /\ fed = None
    /\ epoch_fed = None
    /\ epochs = [ph \in Phases |-> 0]
    /\ ctor = <<>>
    /\ last = NoCall
    /\ steps = 0

Init == InitWith(RunConfigs)

ForwardInit == InitWith(AllConfigs)

\* __init__(config), create_config(config) having returned `given`
Construct ==
    /\ pc = "new"
    /\ pc' = "ready"
    /\ ctor' = init_steps(cls, given)
    /\ config' = init(cls, given).config
    /\ hparams' = init(cls, given).hparams
    /\ layers' = init(cls, given).layers
    /\ requires_grad' = init(cls, given).requires_grad
    /\ grad' = [p \in ParamGroups(cls) |-> FALSE]
    /\ value' = [p \in ParamGroups(cls) |-> 0]
    /\ train_metric' = NewMetric(cls)
    /\ val_metric' = NewMetric(cls)
    /\ test_metric' = IF cls = "BiLSTMModel" THEN None ELSE NewMetric(cls)
    /\ fed' = [ph \in Phases |->
                IF cls = "BiLSTMModel" /\ ph = "test" THEN None ELSE NewMetric(cls)]
    /\ epoch_fed' = [ph \in Phases |-> NewMetric(cls)]
    /\ UNCHANGED <<cls, given, optimizer, pending, device, epochs, last, steps>>

\* __init__(config) when DistilBertModel.from_pretrained raises
ConstructRaises ==
    /\ pc = "new"
    /\ cls # "BiLSTMModel"
    /\ pc' = "raised"
    /\ ctor' = UpTo(init_steps(cls, given), "from_pretrained")
    /\ config' = given
    /\ hparams' = save_hyperparameters(given)
    /\ train_metric' = NewMetric(cls)
    /\ val_metric' = NewMetric(cls)
    /\ test_metric' = NewMetric(cls)
    /\ last' = [NoCall EXCEPT !.hook = "__init__", !.raised = "from_pretrained",
                              !.ran = ctor']
    /\ UNCHANGED <<cls, given, layers, requires_grad, grad, value, optimizer,
                   pending, device, fed, epoch_fed, epochs, steps>>

Step(ph, b, fault) ==
    \E r \in {step(cls, ph, layers, device, Metrics, b, fault)} :
        /\ last' = r.call
        /\ train_metric' = r.metrics.train_metric
        /\ val_metric' = r.metrics.val_metric
        /\ test_metric' = r.metrics.test_metric
        /\ pc' = IF r.call.raised = "none" THEN "ready" ELSE "raised"
        /\ pending' = (ph = "train" /\ r.call.raised = "none")
        /\ fed' = IF r.call.raised = "none"
                    THEN [fed EXCEPT ![ph] = Reference(cls, @, b)] ELSE fed
        /\ epoch_fed' = IF r.call.raised = "none"
                          THEN [epoch_fed EXCEPT ![ph] = Reference(cls, @, b)]
                          ELSE epoch_fed
        /\ steps' = steps + 1
        /\ UNCHANGED <<cls, given, config, hparams, layers, requires_grad, grad,
                       value, optimizer, device, epochs, ctor>>

training_step ==
    /\ pc = "ready" /\ steps < MaxSteps
    /\ \E b \in EpochBatches(cls, config, device) : Step("train", b, "none")

validation_step ==
    /\ pc = "ready" /\ steps < MaxSteps
    /\ \E b \in EpochBatches(cls, config, device) : Step("val", b, "none")

test_step ==
    /\ pc = "ready" /\ steps < MaxSteps
    /\ cls = "CustomDistilBertModel"
    /\ \E b \in EpochBatches(cls, config, device) : Step("test", b, "none")

\* the first step hook called on a fresh object, on any batch, with any failure
FirstStep ==
    /\ pc = "ready" /\ steps = 0
    /\ \E ph \in Phases, b \in StepBatches(cls, config), fault \in Faults :
        /\ ph = "test" => cls = "CustomDistilBertModel"
        /\ Step(ph, b, fault)

\* the framework calls the epoch-end hook of a phase after the steps of its epoch
EpochEnd(ph) ==
    /\ pc = "ready" /\ steps < MaxSteps
    /\ epoch_fed[ph] # NewMetric(cls)
    /\ last' = [epoch_end(cls, ph, Metrics) EXCEPT
                    !.epoch_value = Compute(epoch_fed[ph])]
    /\ epoch_fed' = [epoch_fed EXCEPT ![ph] = NewMetric(cls)]
    /\ epochs' = [epochs EXCEPT ![ph] = @ + 1]
    /\ steps' = steps + 1
    /\ pending' = FALSE
    /\ UNCHANGED <<cls, pc, given, config, hparams, layers, requires_grad, grad,
                   value, optimizer, device, train_metric, val_metric,
                   test_metric, fed, ctor>>

training_epoch_end == EpochEnd("train")

validation_epoch_end == EpochEnd("val")

test_epoch_end == cls = "CustomDistilBertModel" /\ EpochEnd("test")

ConfigureOptimizers ==
    /\ pc = "ready" /\ steps < MaxSteps
    /\ optimizer = NoOptimizer
    /\ optimizer' = configure_optimizers(cls)
    /\ last' = [NoCall EXCEPT !.hook = "configure_optimizers", !.ran = <<"Adam">>]
    /\ steps' = steps + 1
    /\ UNCHANGED <<cls, pc, given, config, hparams, layers, requires_grad, grad,
                   value, pending, device, train_metric, val_metric, test_metric,
                   fed, epoch_fed, epochs, ctor>>

\* the framework's loss.backward() and optimizer.step() after a training_step
OptimizerStep ==
    /\ pc = "ready" /\ steps < MaxSteps
    /\ pending /\ optimizer # NoOptimizer
    /\ grad' = Backward(requires_grad)
    /\ value' = AdamStep(optimizer, grad', value)
    /\ pending' = FALSE
    /\ last' = [NoCall EXCEPT !.hook = "optimizer_step", !.ran = <<"backward", "step">>]
    /\ steps' = steps + 1
    /\ UNCHANGED <<cls, pc, given, config, hparams, layers, requires_grad,
                   optimizer, device, train_metric, val_metric, test_metric,
                   fed, epoch_fed, epochs, ctor>>

\* the first direct call of a fresh model: self(encoded_text, category_vectors)
Call(x) ==
    LET fwd == forward(cls, layers, x)
        placed == x.dev = device
    IN  /\ pc = "ready" /\ steps = 0 /\ last.hook = None
        /\ last' = [NoCall EXCEPT
                        !.hook = "forward",
                        !.x = x,
                        !.arrived = x.dev,
                        !.used = [y |-> None, encoded_texts |-> x.dev,
                                  category_vectors |->
                                    IF cls = "CustomDistilBertModel" THEN None
                                    ELSE x.dev],
                        !.ran = fwd.steps,
                        !.fwd_steps = fwd.steps,
                        !.raised = IF fwd.out = Err \/ ~placed THEN "forward" ELSE "none",
                        !.clf_in = fwd.clf_in,
                        !.out = fwd.out]
        /\ UNCHANGED <<cls, pc, given, config, hparams, layers, requires_grad, grad,
                       value, optimizer, pending, device, train_metric, val_metric,
                       test_metric, fed, epoch_fed, epochs, ctor, steps>>

CallForward == \E x \in AllInputs : Call(x)

\* the first step hook called on a fresh CustomDistilBertModel
StanceStep ==
    /\ pc = "ready" /\ steps = 0
    /\ cls = "CustomDistilBertModel"
    /\ \E ph \in Phases, b \in StanceBatches : Step(ph, b, "none")

Next ==
    \/ Construct
    \/ ConstructRaises
    \/ training_step
    \/ validation_step
    \/ test_step
    \/ training_epoch_end
    \/ validation_epoch_end
    \/ test_epoch_end
    \/ ConfigureOptimizers
    \/ OptimizerStep

Spec == Init /\ [][Next]_vars

StepNext == Construct \/ ConstructRaises \/ FirstStep

StepSpec == Init /\ [][StepNext]_vars

ForwardNext == Construct \/ ConstructRaises \/ CallForward

ForwardSpec == ForwardInit /\ [][ForwardNext]_vars

StanceNext == Construct \/ ConstructRaises \/ StanceStep

StanceSpec == Init /\ [][StanceNext]_vars

----------------------------------------------------------------------------
(* Properties *)

BertBased == {"BaseModel", "CustomDistilBertModel"}

\* the constructor returned: it ran to its last statement
Constructed == HasStep(ctor, "classifier")

\* the last call ran operation `op` and `op` did not raise
Did(op) == HasStep(last.ran, op) /\ last.raised # op

C3_MetricsByPhase ==
    Constructed =>
        /\ train_metric = fed["train"]
        /\ val_metric = fed["val"]
        /\ test_metric = fed["test"]

C3_Witness ==
    /\ last.hook = "validation_epoch_end"
    /\ optimizer # NoOptimizer
    /\ train_metric # NewMetric(cls)
    /\ val_metric # NewMetric(cls)
    /\ train_metric # val_metric

\* C8: the value an epoch-end hook logs is the metric over the batches of that
\* epoch alone.
C8_EpochMetric ==
    last.hook \in EpochEndHooks =>
        SameValue(last.logged[1].value, last.epoch_value)

NoRetry(ran) == \A i, j \in 1..Len(ran) : ran[i] = ran[j] => i = j

\* C4: a failure inside a constructor or a step hook propagates out of the call:
\* the failing operation is the last one run, none is run twice, nothing is
\* logged or returned for the batch, no metric is updated, and a failed
\* constructor leaves no model behind.
C4_FailurePropagates ==
    (last.hook \in StepHooks \cup {"__init__"} /\ last.raised # "none") =>
        /\ pc = "raised"
        /\ last.ran # <<>>
        /\ last.ran[Len(last.ran)] = last.raised
        /\ NoRetry(last.ran)
        /\ last.logged = <<>>
        /\ last.returned = None
        /\ train_metric = NewMetric(cls)
        /\ val_metric = NewMetric(cls)
        /\ last.hook = "__init__" => ~Constructed /\ layers = None

C4_Witness ==
    /\ last.hook = "training_step"
    /\ last.raised = "metric"
    /\ last.ran = <<"unpack", "to", "forward", "loss", "metric">>

\* C6 as stated: no step hook changes the device a batch tensor resides on.
C6_NoDeviceChange ==
    (last.hook \in StepHooks /\ Did("to")) =>
        /\ last.used.y = last.arrived
        /\ last.used.encoded_texts = last.arrived
        /\ cls # "CustomDistilBertModel" => last.used.category_vectors = last.arrived

\* C6 as amended: every step hook moves the labels, the encoded text and the
\* category vectors to self.device before it uses them, whatever device the
\* batch arrived on; forward itself moves nothing, so the loss is computed on
\* self.device.
C6_MovedToSelfDevice ==
    (last.hook \in StepHooks /\ Did("to")) =>
        /\ last.used.y = device
        /\ last.used.encoded_texts = device
        /\ cls # "CustomDistilBertModel" => last.used.category_vectors = device
        /\ Did("loss") => last.loss.input.dev = device /\ last.loss.target.dev = device

C6_Witness ==
    /\ last.hook = "validation_step"
    /\ last.raised = "none"
    /\ last.arrived = "cpu"
    /\ device = "cuda"
    /\ last.used.y = "cuda"
    /\ last.loss.input.dev = "cuda"

Diagonal(n) == {<<i, i>> : i \in 1..n}

\* C9: in BaseModel and BiLSTMModel the two tensors given to the loss have the
\* same shape and the loss pairs prediction i with label i, as do the two
\* tensors given to the metric; BaseModel.training_step computes it on shape
\* (bs,), BaseModel.validation_step on shape (bs, 1).
C9_LossPairsItems ==
    (last.hook \in StepHooks /\ cls # "CustomDistilBertModel" /\ Did("loss")) =>
        LET bs == last.x.ids[1]
        IN  /\ last.out = <<bs, 1>>
            /\ last.loss.input.shape = last.loss.target.shape
            /\ last.loss.pairs = Diagonal(bs)
            /\ last.loss.value =
                  <<SumOver(Diagonal(bs), last.loss.input, last.loss.target), bs>>
            /\ last.loss.input.shape =
                  IF cls = "BaseModel" /\ last.hook = "training_step"
                      THEN <<bs>> ELSE <<bs, 1>>
            /\ Did("metric") =>
                  /\ last.metric_args[1].shape = <<bs, 1>>
                  /\ last.metric_args[2].shape = <<bs, 1>>

C9_Witness ==
    /\ cls = "BaseModel"
    /\ last.hook = "validation_step"
    /\ last.raised = "none"
    /\ last.x.ids[1] = 2
    /\ last.loss.pairs = {<<1, 1>>, <<2, 2>>}
    /\ last.loss.value = <<1, 2>>

WellFormed(x) ==
    /\ cls # "CustomDistilBertModel" => x.cats[2] = given.category_encoded_length
    /\ cls = "BiLSTMModel" => x.max_id < given.vocab_size

ClassifierWidth ==
    IF cls = "BaseModel" THEN bert_dim + given.category_encoder_out
    ELSE IF cls = "BiLSTMModel"
        THEN 2 * given.bilstm_hidden_dim + given.category_encoder_out
    ELSE bert_dim

OneConfig == Config(1, 1, 1, 1, 1)

OneInput == [ids |-> <<1, 1>>, max_id |-> 0, cats |-> <<1, 1>>]

\* C5 as stated: construction and forward run the same statements for every
\* configuration and every input.  Every configuration and every input is
\* reachable, so this says: the statements run are those run for one fixed
\* configuration and one fixed input.
C5_StraightLine ==
    /\ Constructed => ctor = init_steps(cls, OneConfig)
    /\ last.hook = "forward" =>
          last.fwd_steps = forward(cls, init(cls, OneConfig).layers, OneInput).steps

RECURSIVE Without(_, _)
Without(sq, x) ==
    IF sq = <<>> THEN <<>>
    ELSE (IF sq[1] = x THEN <<>> ELSE <<sq[1]>>) \o Without(Tail(sq), x)

\* C5 as amended: forward runs the same statements for every input and every
\* configuration, and the constructors run the same statements for every
\* configuration except one: the constructors of BaseModel and
\* CustomDistilBertModel assign config["vocab_size"] exactly when the configured
\* vocab_size is 0.
C5_StraightLineButVocab ==
    /\ Constructed =>
          /\ Without(ctor, "vocab_size") = init_steps(cls, OneConfig)
          /\ HasStep(ctor, "vocab_size") <=>
                (cls \in BertBased /\ given.vocab_size = 0)
    /\ last.hook = "forward" =>
          last.fwd_steps = forward(cls, init(cls, OneConfig).layers, OneInput).steps

C5_Witness ==
    /\ cls = "BaseModel"
    /\ given.vocab_size = 0
    /\ HasStep(ctor, "vocab_size")
    /\ Len(ctor) = 11
    /\ last.hook = "forward"
    /\ Len(last.fwd_steps) = 7

\* C10: after the constructor of BaseModel or CustomDistilBertModel
\* config["vocab_size"] is never 0 (the encoder's vocabulary size when 0 was
\* configured, the configured value otherwise) and the saved hyperparameters hold
\* the same vocab_size; BiLSTMModel keeps the configured vocab_size and builds its
\* embedding table with it.
C10_VocabSize ==
    Constructed =>
        IF cls \in BertBased
        THEN /\ config.vocab_size # 0
             /\ config.vocab_size =
                   IF given.vocab_size = 0 THEN bert_vocab_size ELSE given.vocab_size
             /\ hparams.vocab_size = config.vocab_size
        ELSE /\ config.vocab_size = given.vocab_size
             /\ layers.embedding.num = given.vocab_size

IsFirstLargest(row, k) ==
    /\ k \in 1..Len(row)
    /\ \A j \in 1..Len(row) : row[j] <= row[k]
    /\ \A j \in 1..(k - 1) : row[j] < row[k]

PhaseMetric ==
    IF last.hook = "training_step" THEN train_metric
    ELSE IF last.hook = "validation_step" THEN val_metric ELSE test_metric

\* C7: CustomDistilBertModel predicts, for each batch item, the lowest index of
\* the largest of its 4 classifier outputs, an integer in 0..3; the cross-entropy
\* loss is computed from the raw outputs and the label, and the F1 metric of the
\* phase is updated with the predicted index and the label.
C7_StancePrediction ==
    (cls = "CustomDistilBertModel" /\ last.hook \in StepHooks /\ last.raised = "none") =>
        LET bs == last.x.ids[1]
            y_hat == last.loss.input
            pred == last.metric_args[1]
        IN  /\ y_hat.shape = <<bs, 4>>
            /\ pred.shape = <<bs>>
            /\ \A i \in 1..bs :
                /\ pred.vals[i] \in 0..3
                /\ IsFirstLargest([k \in 1..4 |-> y_hat.vals[(i - 1) * 4 + k]],
                                  pred.vals[i] + 1)
            /\ last.loss.kind = "cross_entropy"
            /\ last.loss.target = last.metric_args[2]
            /\ last.loss.target.shape = <<bs>>
            /\ PhaseMetric = MetricUpdate(F1, pred, last.loss.target)

C7_Witness ==
    /\ cls = "CustomDistilBertModel"
    /\ last.hook = "test_step"
    /\ last.raised = "none"
    /\ last.loss.input.vals = <<0, 1, 1, 0>>
    /\ last.metric_args[1].vals = <<1>>
    /\ last.metric_args[2].vals = <<2>>
    /\ test_metric.fp[1] = 1

====
